---- MODULE Spec2Model ----
(***************************************************************************)
(* Model of the forum thread monitor of src/main.py: the seen-thread store *)
(* (load_seen_threads / save_seen_threads), the webhook send, and the      *)
(* polling loop forum_monitor_loop with its exception handlers.            *)
(*                                                                         *)
(* The process is one asyncio task, so the model is one sequential         *)
(* program counter pc.  The browser page, the webhook endpoint and the     *)
(* file system are the environment: each call into them is an action whose *)
(* outcome is chosen nondeterministically among the outcomes the call can  *)
(* have.  Variables below the line "history" record what happened and are  *)
(* never read by the program's actions.                                    *)
(***************************************************************************)
EXTENDS Integers, Sequences, FiniteSets, TLC

VARIABLES
    pc,               \* position of the process (see PcValues)
    run,              \* number of process starts so far
    hashseed,         \* the str-hash salt of the running interpreter
    threads_file,     \* content of THREADS_FILE on disk
    seen_threads,     \* the object run() got from load_seen_threads()
    thread_elements,  \* result of query_selector_all in this cycle
    i,                \* index of the for loop over thread_elements
    thread_id,        \* local thread_id of the candidate being processed
    scroll_counter,   \* local scroll_counter of forum_monitor_loop
    \* ---- history ----
    exc,              \* the exception that last left the try body
    branch,           \* how the last candidate was handled
    wrote,            \* outcome of the last save_seen_threads of a candidate
    status,           \* what send_payload returned for the last candidate
    sends,            \* webhook POST attempts per thread id, this run
    recorded,         \* the last ids appended to seen_threads (window)
    unflushed,        \* ids with a send attempt and no write holding them yet
    write_failures,   \* writes of THREADS_FILE that failed in this run
    cycles,           \* cycles begun so far, over all runs
    cycle_errors,     \* a candidate of this cycle failed to extract or to send
    carried,          \* elements notified by the previous run and persisted
    cycle_log,        \* this cycle: candidates found eligible, ids appended
    last_scroll,      \* scroll_counter at the last mouse.wheel of this run
    scrolled,         \* outcome of mouse.wheel at the last end of a cycle
    reloaded          \* outcome of page.reload at the last end of a cycle

vars == << pc, run, hashseed, threads_file, seen_threads, thread_elements, i,
           thread_id, scroll_counter, exc, branch, wrote, status, sends, recorded,
           unflushed, write_failures, cycles, cycle_errors, carried,
                    cycle_log, last_scroll, scrolled, reloaded >>

(***************************************************************************)
(* Bounds of the model.  The source sets MAX_SEEN_THREADS = 20             *)
(* (src/main.py:16); the model runs the same truncation with a smaller     *)
(* capacity so that eviction is reached within the explored cycles.        *)
(* MaxThreads bounds the elements of one rendered list, MaxCycles the      *)
(* cycles begun, MaxRuns the process starts, MaxWriteFailures the failed   *)
(* writes of one run, MaxCadenceCycles the cycles of a long run on a quiet  *)
(* forum, MaxBurstThreads and MaxBurstCycles the elements of a list and    *)
(* the cycles of a run on a busy forum.                                    *)
(***************************************************************************)
MAX_SEEN_THREADS == 2
MaxThreads == 2
MaxCycles == 2
MaxRuns == 2
MaxWriteFailures == 1
MaxCadenceCycles == 41
MaxBurstThreads == 3
MaxBurstCycles == 1

(***************************************************************************)
(* Python values                                                           *)
(***************************************************************************)
None == "None"
PyList(s) == [t |-> "list", v |-> s]
PyDict(keys) == [t |-> "dict", v |-> keys]
PyNone == [t |-> "NoneType", v |-> << >>]
EmptyList == PyList(<< >>)

Elems(s) == { s[k] : k \in 1..Len(s) }

\* x in obj: list membership, dict key membership, TypeError otherwise
PyInRaises(obj) == obj.t \notin {"list", "dict"}
\* PyIn with a slip: only the latest entry is compared
PyInLatestOnly(x, obj) == Len(obj.v) > 0 /\ x = obj.v[Len(obj.v)]
PyIn(x, obj) == x \in Elems(obj.v)
\* obj.append(x): lists only, AttributeError otherwise
PyAppendRaises(obj) == obj.t # "list"

(***************************************************************************)
(* Configuration                                                           *)
(***************************************************************************)
DISCORD_FORUM_URL == "https://discord.com/channels/1000384021542469632/1303601992169426995"
BLOCKED_THREAD_ID == "1303609863024148602"

\* the salts of str hashing an interpreter can start with
Seeds == {1, 2}
\* Salts are arbitrary values: the salt of the first interpreter is called 1,
\* a later interpreter has a salt used before or the next fresh one.
SeedsOfRun(r) == { s \in Seeds : s <= r }

(***************************************************************************)
(* The thread elements the forum page can render.  item_id is the          *)
(* data-item-id of the inner container, None when the element has no       *)
(* such container.                                                         *)
(***************************************************************************)
ThreadElements ==
    { [item_id |-> "5", title |-> "Raid A"],
      [item_id |-> "6", title |-> "Raid B"],
      [item_id |-> BLOCKED_THREAD_ID, title |-> "Announcements"],
      [item_id |-> None, title |-> "Raid A"] }

RECURSIVE SeqsUpTo(_, _)
SeqsUpTo(S, n) ==
    IF n = 0 THEN { << >> }
    ELSE LET shorter == SeqsUpTo(S, n - 1)
         IN  shorter \cup { Append(s, x) : s \in { q \in shorter : Len(q) = n - 1 }, x \in S }

ThreadLists == { s \in SeqsUpTo(ThreadElements, MaxThreads) : Len(s) >= 1 }

(***************************************************************************)
(* extract_thread_data: the fields of the returned dict the loop reads.    *)
(***************************************************************************)
extract_thread_data(el) ==
    [ id    |-> el.item_id,
      title |-> el.title,
      url   |-> IF el.item_id # None
                THEN DISCORD_FORUM_URL \o "/threads/" \o el.item_id
                ELSE "" ]

\* PyHash with a slip: the value depends on where the element stands in the
\* list, as a hash of the element handle would, not on the text alone
PyHashOfHandle(seed, text) == seed * 1000 + Len(text) + i
\* hash() of a str: salted per interpreter, a function of the text within one
PyHash(seed, text) == seed * 1000 + Len(text)

\* thread_id as the loop computes it from thread_data
ThreadIdOf(thread_data, seed) ==
    IF thread_data.id \in {None, ""}
    THEN "fallback:" \o ToString(PyHash(seed, thread_data.url \o thread_data.title))
    ELSE thread_data.id

IdOfElement(el, seed) == ThreadIdOf(extract_thread_data(el), seed)

AllIds == { IdOfElement(el, s) : el \in ThreadElements, s \in Seeds }

(***************************************************************************)
(* THREADS_FILE                                                            *)
(***************************************************************************)
FileMissing    == [kind |-> "missing",    val |-> PyNone]
FileUnreadable == [kind |-> "unreadable", val |-> PyNone]
FileGarbage    == [kind |-> "garbage",    val |-> PyNone]
FileJson(val)  == [kind |-> "json",       val |-> val]

load_seen_threads(f) ==
    IF f.kind # "missing"
    THEN IF f.kind = "json" THEN f.val ELSE EmptyList
    ELSE EmptyList

\* the last n entries of s
LastN(s, n) == IF Len(s) > n THEN SubSeq(s, Len(s) - n + 1, Len(s)) ELSE s

\* Truncated with a slip: seen_list[:MAX_SEEN_THREADS], the oldest entries kept
TruncatedKeepsOldest(s) ==
    IF Len(s) > MAX_SEEN_THREADS THEN SubSeq(s, 1, MAX_SEEN_THREADS) ELSE s
\* seen_list[-MAX_SEEN_THREADS:]
Truncated(s) == LastN(s, MAX_SEEN_THREADS)

\* what save_seen_threads leaves in memory and on disk; outcome is that of
\* open(THREADS_FILE, "w") and json.dump
SavedList(seen_list) == PyList(Truncated(seen_list.v))
\* SavedFile with a slip: the write is left out, the file keeps its content
SavedFileNotWritten(seen_list, file, outcome) == file
SavedFile(seen_list, file, outcome) ==
    CASE outcome = "ok"          -> FileJson(SavedList(seen_list))
      [] outcome = "open_fails"  -> file
      [] outcome = "write_fails" -> FileGarbage

WriteOutcomes == {"ok", "open_fails", "write_fails"}

(***************************************************************************)
(* send_payload: the status code of the response, None when requests.post  *)
(* raised.                                                                 *)
(***************************************************************************)
SendResults == {"204", "429", None}

(***************************************************************************)
(* Exceptions that can leave the try body of forum_monitor_loop, and the   *)
(* handler that takes each: playwright's TimeoutError and                  *)
(* TargetClosedError are subclasses of playwright.async_api.Error.         *)
(***************************************************************************)
PlaywrightErrors == {"TimeoutError", "TargetClosedError"}
IsPlaywrightError(e) == e \in PlaywrightErrors
\* except PlaywrightError: return / except Exception: sleep(10)
Handler(e) == IF IsPlaywrightError(e) THEN "done" ELSE "backoff"

PcValues == {"boot", "wait", "loop", "send", "append", "save", "sleep",
             "backoff", "done"}

NoSends == [id \in AllIds |-> 0]
Window == MAX_SEEN_THREADS + 1
Min(a, b) == IF a < b THEN a ELSE b

(***************************************************************************)
(* Initial state: no process yet, only the file on disk.                   *)
(***************************************************************************)
ListFiles ==
    { FileMissing, FileGarbage, FileJson(EmptyList), FileJson(PyList(<< "5" >>)) }
AnyFiles ==
    ListFiles \cup { FileUnreadable, FileJson(PyDict(<< "5" >>)), FileJson(PyNone) }

InitWith(files) ==
    /\ pc = "boot"
    /\ run = 0
    /\ hashseed = 0
    /\ threads_file \in files
    /\ seen_threads = EmptyList
    /\ thread_elements = << >>
    /\ i = 1
    /\ thread_id = None
    /\ scroll_counter = 0
    /\ exc = "none"
    /\ branch = "none"
    /\ wrote = "none"
    /\ status = "none"
    /\ sends = NoSends
    /\ recorded = << >>
    /\ unflushed = {}
    /\ write_failures = 0
    /\ cycles = 0
    /\ cycle_errors = FALSE
    /\ carried = {}
    /\ cycle_log = << >>
    /\ last_scroll = 0
    /\ scrolled = "none"
    /\ reloaded = "none"

Init == InitWith(ListFiles)

(***************************************************************************)
(* run(): the interpreter starts and load_seen_threads reads the file.     *)
(***************************************************************************)
Start ==
    /\ pc = "boot"
    /\ run < MaxRuns
    /\ run' = run + 1
    /\ \E s \in SeedsOfRun(run') : hashseed' = s
    /\ seen_threads' = load_seen_threads(threads_file)
    /\ recorded' = IF seen_threads'.t = "list" THEN LastN(seen_threads'.v, Window) ELSE << >>
    /\ pc' = "wait"
    /\ UNCHANGED << threads_file, thread_elements, i, thread_id, scroll_counter,
                    exc, branch, wrote, status, sends, unflushed, write_failures,
                    cycles, cycle_errors, carried,
                    cycle_log, last_scroll, scrolled, reloaded >>

(***************************************************************************)
(* Top of the while loop: wait_for_selector and query_selector_all.        *)
(***************************************************************************)
RenderedWithin(cap, lists) ==
    /\ pc = "wait"
    /\ cycles < cap
    /\ cycles' = cycles + 1
    /\ \E els \in lists : thread_elements' = els
    /\ i' = 1
    /\ pc' = "loop"
    /\ scrolled' = "none"
    /\ reloaded' = "none"
    /\ UNCHANGED << run, hashseed, threads_file, seen_threads, thread_id,
                    scroll_counter, exc, branch, wrote, status, sends, recorded,
                    unflushed, write_failures, cycle_errors, carried,
                    cycle_log, last_scroll >>

Rendered == RenderedWithin(MaxCycles, ThreadLists)

\* the same step on a forum that shows one thread, for long runs
QuietLists == { << [item_id |-> "5", title |-> "Raid A"] >> }
RenderedQuiet == RenderedWithin(MaxCadenceCycles, QuietLists)

\* the same step on a forum that shows more threads than the list holds ids
BurstElements == { el \in ThreadElements : el.item_id # None }
BurstLists == { s \in SeqsUpTo(BurstElements, MaxBurstThreads) : Len(s) >= 1 }
RenderedBurst == RenderedWithin(MaxBurstCycles, BurstLists)

\* the container does not appear within 15 s (TimeoutError), the page is
\* closed (TargetClosedError), or the call fails otherwise (Exception)
WaitRaises ==
    /\ pc = "wait"
    /\ \E e \in PlaywrightErrors \cup {"Exception"} :
          /\ exc' = e
          /\ pc' = Handler(e)
    /\ scrolled' = "none"
    /\ reloaded' = "none"
    /\ UNCHANGED << run, hashseed, threads_file, seen_threads, thread_elements, i,
                    thread_id, scroll_counter, branch, wrote, status, sends,
                    recorded, unflushed, write_failures, cycles, cycle_errors, carried,
                    cycle_log, last_scroll >>

(***************************************************************************)
(* One iteration of the for loop up to the decision what to do with the    *)
(* candidate.  extract_thread_data returns None when a lookup on the       *)
(* element raised.                                                         *)
(***************************************************************************)
\* ExtractFails with a slip: the failure leaves the for loop for the handler
ExtractFailsAborts ==
    /\ pc = "loop"
    /\ i <= Len(thread_elements)
    /\ branch' = "failed"
    /\ wrote' = "none"
    /\ cycle_errors' = TRUE
    /\ exc' = "Exception"
    /\ pc' = "backoff"
    /\ UNCHANGED << i, run, hashseed, threads_file, seen_threads, thread_elements,
                    thread_id, scroll_counter, status, sends, recorded,
                    unflushed, write_failures, cycles, carried,
                    cycle_log, last_scroll, scrolled, reloaded >>
ExtractFails ==
    /\ pc = "loop"
    /\ i <= Len(thread_elements)
    /\ i' = i + 1
    /\ branch' = "failed"
    /\ wrote' = "none"
    /\ cycle_errors' = TRUE
    /\ UNCHANGED << pc, run, hashseed, threads_file, seen_threads, thread_elements,
                    thread_id, scroll_counter, exc, status, sends, recorded,
                    unflushed, write_failures, cycles, carried,
                    cycle_log, last_scroll, scrolled, reloaded >>

\* Decide with a slip: no membership test before the send
DecideNoMembership(tid, seen_list) ==
    IF tid = BLOCKED_THREAD_ID THEN "blocked"
    ELSE IF PyInRaises(seen_list) THEN "raised"
    ELSE "new"
\* Decide with a slip: the membership test lost its "not"
DecideInverted(tid, seen_list) ==
    IF tid = BLOCKED_THREAD_ID THEN "blocked"
    ELSE IF PyInRaises(seen_list) THEN "raised"
    ELSE IF PyIn(tid, seen_list) THEN "new"
    ELSE "seen"
\* Decide with a slip: the announcements thread is not singled out
DecideNoBlocked(tid, seen_list) ==
    IF PyInRaises(seen_list) THEN "raised"
    ELSE IF ~PyIn(tid, seen_list) THEN "new"
    ELSE "seen"
\* the two tests on thread_id, in the order the loop makes them
Decide(tid, seen_list) ==
    IF tid = BLOCKED_THREAD_ID THEN "blocked"
    ELSE IF PyInRaises(seen_list) THEN "raised"
    ELSE IF ~PyIn(tid, seen_list) THEN "new"
    ELSE "seen"

\* Extract with a slip: the for loop walks the list from its end
ExtractNewestLast ==
    /\ pc = "loop"
    /\ i <= Len(thread_elements)
    /\ LET thread_data == extract_thread_data(thread_elements[Len(thread_elements) + 1 - i])
           tid == ThreadIdOf(thread_data, hashseed)
           what == Decide(tid, seen_threads)
       IN  /\ branch' = what
           /\ CASE what = "blocked" ->
                    /\ thread_id' = tid
                    /\ pc' = "append"
                    /\ UNCHANGED << i, exc >>
                [] what = "raised" ->
                    /\ thread_id' = None
                    /\ exc' = "TypeError"
                    /\ pc' = Handler("TypeError")
                    /\ UNCHANGED i
                [] what = "new" ->
                    /\ thread_id' = tid
                    /\ pc' = "send"
                    /\ UNCHANGED << i, exc >>
                [] what = "seen" ->
                    /\ thread_id' = None
                    /\ i' = i + 1
                    /\ UNCHANGED << pc, exc >>
    /\ wrote' = "none"
    /\ cycle_log' = IF /\ ThreadIdOf(extract_thread_data(thread_elements[Len(thread_elements) + 1 - i]), hashseed) # BLOCKED_THREAD_ID
                       /\ seen_threads.t = "list"
                       /\ ThreadIdOf(extract_thread_data(thread_elements[Len(thread_elements) + 1 - i]), hashseed) \notin Elems(seen_threads.v)
                    THEN Append(cycle_log, [kind |-> "eligible",
                                            id |-> ThreadIdOf(extract_thread_data(thread_elements[Len(thread_elements) + 1 - i]), hashseed)])
                    ELSE cycle_log
    /\ UNCHANGED << run, hashseed, threads_file, seen_threads, thread_elements,
                    scroll_counter, status, sends, recorded, unflushed,
                    write_failures, cycles, cycle_errors, carried,
                    last_scroll, scrolled, reloaded >>
Extract ==
    /\ pc = "loop"
    /\ i <= Len(thread_elements)
    /\ LET thread_data == extract_thread_data(thread_elements[i])
           tid == ThreadIdOf(thread_data, hashseed)
           what == Decide(tid, seen_threads)
       IN  /\ branch' = what
           /\ CASE what = "blocked" ->
                    /\ thread_id' = tid
                    /\ pc' = "append"
                    /\ UNCHANGED << i, exc >>
                [] what = "raised" ->
                    /\ thread_id' = None
                    /\ exc' = "TypeError"
                    /\ pc' = Handler("TypeError")
                    /\ UNCHANGED i
                [] what = "new" ->
                    /\ thread_id' = tid
                    /\ pc' = "send"
                    /\ UNCHANGED << i, exc >>
                [] what = "seen" ->
                    /\ thread_id' = None
                    /\ i' = i + 1
                    /\ UNCHANGED << pc, exc >>
    /\ wrote' = "none"
    /\ cycle_log' = IF /\ ThreadIdOf(extract_thread_data(thread_elements[i]), hashseed) # BLOCKED_THREAD_ID
                       /\ seen_threads.t = "list"
                       /\ ThreadIdOf(extract_thread_data(thread_elements[i]), hashseed) \notin Elems(seen_threads.v)
                    THEN Append(cycle_log, [kind |-> "eligible",
                                            id |-> ThreadIdOf(extract_thread_data(thread_elements[i]), hashseed)])
                    ELSE cycle_log
    /\ UNCHANGED << run, hashseed, threads_file, seen_threads, thread_elements,
                    scroll_counter, status, sends, recorded, unflushed,
                    write_failures, cycles, cycle_errors, carried,
                    last_scroll, scrolled, reloaded >>

\* post_new_thread_webhook: one requests.post, its result only printed
Send ==
    /\ pc = "send"
    /\ \E r \in SendResults :
          /\ status' = r
          /\ cycle_errors' = (cycle_errors \/ r # "204")
    /\ sends' = [sends EXCEPT ![thread_id] = Min(2, @ + 1)]
    /\ unflushed' = unflushed \cup {thread_id}
    /\ pc' = "append"
    /\ UNCHANGED << run, hashseed, threads_file, seen_threads, thread_elements, i,
                    thread_id, scroll_counter, exc, branch, wrote, recorded,
                    write_failures, cycles, carried,
                    cycle_log, last_scroll, scrolled, reloaded >>

\* seen_threads.append(thread_id)
AppendSeen ==
    /\ pc = "append"
    /\ IF PyAppendRaises(seen_threads)
       THEN /\ exc' = "AttributeError"
            /\ pc' = Handler("AttributeError")
            /\ UNCHANGED << seen_threads, recorded, cycle_log >>
       ELSE /\ seen_threads' = PyList(Append(seen_threads.v, thread_id))
            /\ recorded' = LastN(Append(recorded, thread_id), Window)
            /\ cycle_log' = Append(cycle_log, [kind |-> "appended", id |-> thread_id])
            /\ pc' = "save"
            /\ UNCHANGED exc
    /\ UNCHANGED << run, hashseed, threads_file, thread_elements, i, thread_id,
                    scroll_counter, branch, wrote, status, sends, unflushed,
                    write_failures, cycles, cycle_errors, carried,
                    last_scroll, scrolled, reloaded >>

\* Save with a slip: a failed write is not swallowed, it reaches the cycle
SaveFailureRaises ==
    /\ pc = "save"
    /\ \E outcome \in WriteOutcomes :
          /\ outcome # "ok" => write_failures < MaxWriteFailures
          /\ seen_threads' = SavedList(seen_threads)
          /\ threads_file' = SavedFile(seen_threads, threads_file, outcome)
          /\ wrote' = IF outcome = "ok" THEN "ok" ELSE "failed"
          /\ write_failures' = IF outcome = "ok" THEN write_failures ELSE write_failures + 1
          /\ unflushed' = IF outcome = "ok"
                          THEN unflushed \ Elems(seen_threads'.v)
                          ELSE unflushed
          /\ IF outcome = "ok"
             THEN i' = i + 1 /\ pc' = "loop" /\ UNCHANGED exc
             ELSE i' = i /\ pc' = Handler("OSError") /\ exc' = "OSError"
    /\ status' = "none"
    /\ thread_id' = None
    /\ UNCHANGED << run, hashseed, thread_elements, scroll_counter, branch,
                    sends, recorded, cycles, cycle_errors, carried,
                    cycle_log, last_scroll, scrolled, reloaded >>
\* save_seen_threads(seen_threads), then the next iteration
Save ==
    /\ pc = "save"
    /\ \E outcome \in WriteOutcomes :
          /\ outcome # "ok" => write_failures < MaxWriteFailures
          /\ seen_threads' = SavedList(seen_threads)
          /\ threads_file' = SavedFile(seen_threads, threads_file, outcome)
          /\ wrote' = IF outcome = "ok" THEN "ok" ELSE "failed"
          /\ write_failures' = IF outcome = "ok" THEN write_failures ELSE write_failures + 1
          /\ unflushed' = IF outcome = "ok"
                          THEN unflushed \ Elems(seen_threads'.v)
                          ELSE unflushed
    /\ i' = i + 1
    /\ pc' = "loop"
    /\ status' = "none"
    /\ thread_id' = None
    /\ UNCHANGED << run, hashseed, thread_elements, scroll_counter, exc, branch,
                    sends, recorded, cycles, cycle_errors, carried,
                    cycle_log, last_scroll, scrolled, reloaded >>

ForDone ==
    /\ pc = "loop"
    /\ i > Len(thread_elements)
    /\ pc' = "sleep"
    /\ branch' = "none"
    /\ wrote' = "none"
    /\ cycle_errors' = FALSE
    /\ cycle_log' = << >>
    /\ UNCHANGED << run, hashseed, threads_file, seen_threads, thread_elements, i,
                    thread_id, scroll_counter, exc, status, sends, recorded,
                    unflushed, write_failures, cycles, carried,
                    last_scroll, scrolled, reloaded >>

\* the two tests on scroll_counter after the sleep
ScrollDue(counter, m) == counter % m = 0
\* ReloadDue with a slip: the reload comes one cycle early
ReloadDueOneEarly(counter) == (counter + 1) % 40 = 0
ReloadDue(counter) == counter % 40 = 0

(***************************************************************************)
(* After the for loop: sleep, count the cycle, maybe scroll, maybe reload. *)
(* m is the value random.randint(8, 16) returns in this cycle.             *)
(***************************************************************************)
EndCycle ==
    /\ pc = "sleep"
    /\ scroll_counter' = scroll_counter + 1
    /\ \E m \in 8..16 :
          \E scroll_res \in (IF ScrollDue(scroll_counter', m)
                             THEN PlaywrightErrors \cup {"ok"} ELSE {"none"}) :
             /\ scrolled' = scroll_res
             /\ last_scroll' = IF scroll_res # "none" THEN scroll_counter' ELSE last_scroll
             /\ IF scroll_res \in PlaywrightErrors
                THEN /\ exc' = scroll_res
                     /\ pc' = "done"
                     /\ reloaded' = "none"
                ELSE \E reload_res \in (IF ReloadDue(scroll_counter')
                                        THEN PlaywrightErrors \cup {"ok"} ELSE {"none"}) :
                        /\ reloaded' = reload_res
                        /\ IF reload_res \in PlaywrightErrors
                           THEN exc' = reload_res /\ pc' = "done"
                           ELSE pc' = "wait" /\ UNCHANGED exc
    /\ thread_elements' = << >>
    /\ i' = 1
    /\ cycle_errors' = FALSE
    /\ cycle_log' = << >>
    /\ UNCHANGED << run, hashseed, threads_file, seen_threads, thread_id, branch,
                    wrote, status, sends, recorded, unflushed, write_failures,
                    cycles, carried >>

\* except Exception: print, sleep 10 s, next iteration of the while loop
Backoff ==
    /\ pc = "backoff"
    /\ pc' = "wait"
    /\ exc' = "none"
    /\ branch' = "none"
    /\ status' = "none"
    /\ thread_id' = None
    /\ thread_elements' = << >>
    /\ i' = 1
    /\ cycle_errors' = FALSE
    /\ cycle_log' = << >>
    /\ UNCHANGED << run, hashseed, threads_file, seen_threads, scroll_counter,
                    wrote, sends, recorded, unflushed, write_failures, cycles,
                    carried,
                    last_scroll, scrolled, reloaded >>

(***************************************************************************)
(* The process ends: the loop returned and run() finished, or the process  *)
(* was interrupted or killed.  Only the file survives.  A kill during the  *)
(* write of save_seen_threads can leave a partial file.                    *)
(***************************************************************************)
ProcessEnds ==
    /\ pc # "boot"
    /\ run < MaxRuns
    /\ \E partial \in (IF pc = "save" THEN BOOLEAN ELSE {FALSE}) :
          threads_file' = IF partial THEN FileGarbage ELSE threads_file
    /\ carried' = { el \in ThreadElements :
                      /\ sends[IdOfElement(el, hashseed)] > 0
                      /\ load_seen_threads(threads_file').t = "list"
                      /\ IdOfElement(el, hashseed) \in Elems(load_seen_threads(threads_file').v) }
    /\ pc' = "boot"
    /\ hashseed' = 0
    /\ seen_threads' = EmptyList
    /\ thread_elements' = << >>
    /\ i' = 1
    /\ thread_id' = None
    /\ scroll_counter' = 0
    /\ exc' = "none"
    /\ branch' = "none"
    /\ wrote' = "none"
    /\ status' = "none"
    /\ sends' = NoSends
    /\ recorded' = << >>
    /\ unflushed' = {}
    /\ write_failures' = 0
    /\ cycle_errors' = FALSE
    /\ cycle_log' = << >>
    /\ last_scroll' = 0
    /\ scrolled' = "none"
    /\ reloaded' = "none"
    /\ UNCHANGED << run, cycles >>

\* one process run
Next ==
    \/ Start
    \/ Rendered
    \/ WaitRaises
    \/ ExtractFails
    \/ Extract
    \/ Send
    \/ AppendSeen
    \/ Save
    \/ ForDone
    \/ EndCycle
    \/ Backoff

Spec == Init /\ [][Next]_vars

\* one process run started on any content of THREADS_FILE
SpecAnyFile == InitWith(AnyFiles) /\ [][Next]_vars

\* one long process run on a forum that shows one thread
NextCadence ==
    \/ Start
    \/ RenderedQuiet
    \/ WaitRaises
    \/ ExtractFails
    \/ Extract
    \/ Send
    \/ AppendSeen
    \/ Save
    \/ ForDone
    \/ EndCycle
    \/ Backoff
SpecCadence == Init /\ [][NextCadence]_vars

\* one short process run on a forum that shows many threads
NextBurst ==
    \/ Start
    \/ RenderedBurst
    \/ WaitRaises
    \/ ExtractFails
    \/ Extract
    \/ Send
    \/ AppendSeen
    \/ Save
    \/ ForDone
    \/ EndCycle
    \/ Backoff
SpecBurst == Init /\ [][NextBurst]_vars

\* process runs one after another on the same THREADS_FILE
NextRestart == Next \/ ProcessEnds
SpecRestart == Init /\ [][NextRestart]_vars

TypeOK ==
    /\ pc \in PcValues
    /\ run \in 0..MaxRuns
    /\ seen_threads.t \in {"list", "dict", "NoneType"}
    /\ scroll_counter \in 0..MaxCadenceCycles

(***************************************************************************)
(* Properties                                                              *)
(***************************************************************************)
SeenIds == Elems(seen_threads.v)
FileIds == Elems(load_seen_threads(threads_file).v)

\* C1: within one process run every thread id other than the excluded one
\* gets at most one webhook send, however often and in whatever company the
\* thread is presented.
C1_NotifiedOnce ==
    \A id \in AllIds \ {BLOCKED_THREAD_ID} : sends[id] <= 1

\* C2: after a record step (append, then save_seen_threads) the in-memory
\* sequence is the last MAX_SEEN_THREADS ids recorded, in insertion order;
\* a write that succeeded left exactly that sequence in the file, and the
\* file never holds more than MAX_SEEN_THREADS ids.
C2_BoundedFifo ==
    /\ threads_file.kind = "json" => Len(threads_file.val.v) <= MAX_SEEN_THREADS
    /\ wrote # "none" => seen_threads = PyList(LastN(recorded, MAX_SEEN_THREADS))
    /\ wrote = "ok" => threads_file = FileJson(PyList(LastN(recorded, MAX_SEEN_THREADS)))

\* C2 witness: a record step has evicted the oldest id
C2_Evicted ==
    /\ wrote = "ok"
    /\ Len(recorded) = Window
    /\ threads_file.val.v = SubSeq(recorded, 2, Window)
    /\ recorded[1] \notin FileIds

\* C3 as stated: the excluded thread is never sent, and right after it is
\* processed its id is in the in-memory sequence and in the file.
C3_ExcludedSeenAndPersisted ==
    /\ sends[BLOCKED_THREAD_ID] = 0
    /\ (pc = "loop" /\ branch = "blocked") =>
          /\ BLOCKED_THREAD_ID \in SeenIds
          /\ threads_file.kind = "json"
          /\ BLOCKED_THREAD_ID \in FileIds

\* C3 amended: the excluded thread is never sent, and right after it is
\* processed its id is in the in-memory sequence, and in the file when the
\* write of save_seen_threads succeeded.
C3_ExcludedSeenPersistedIfWritten ==
    /\ sends[BLOCKED_THREAD_ID] = 0
    /\ (pc = "loop" /\ branch = "blocked") =>
          /\ BLOCKED_THREAD_ID \in SeenIds
          /\ wrote = "ok" => (threads_file.kind = "json" /\ BLOCKED_THREAD_ID \in FileIds)

\* C3 witness: the excluded thread was processed while its id was already
\* in the sequence, and the write succeeded
C3_ExcludedProcessed ==
    /\ pc = "loop"
    /\ branch = "blocked"
    /\ wrote = "ok"
    /\ Len(recorded) >= 2
    /\ recorded[Len(recorded) - 1] = BLOCKED_THREAD_ID

\* C4: a timeout of wait_for_selector does not end the loop.
C4_TimeoutRecoverable ==
    [][(pc = "wait" /\ exc' = "TimeoutError") => pc' # "done"]_vars

\* C5: an item notified by the previous run whose id was in the file the new
\* run loaded is not sent again when the page presents the same element.
C5_NoRenotifyAfterRestart ==
    (pc = "append" /\ branch = "new") => thread_elements[i] \notin carried

\* C6: no failure of one candidate ends the cycle: the for loop is left only
\* after the last candidate, and the handlers are never entered with
\* candidates in hand.
C6_PerItemResilience ==
    /\ pc = "sleep" => i = Len(thread_elements) + 1
    /\ pc \in {"backoff", "done"} => thread_elements = << >>

\* C6 witness: a candidate is about to be sent after an earlier candidate of
\* the same cycle failed to extract or to send
C6_SentAfterFailure ==
    /\ pc = "send"
    /\ cycle_errors
    /\ i > 1

\* C7: the loop returns only when the render surface is gone.
C7_StopsOnlyWhenSurfaceGone ==
    pc = "done" => exc = "TargetClosedError"

\* C8: whatever the file holds, load_seen_threads returns a list, and the
\* empty list unless the file holds a JSON array.
C8_LoadRecovers ==
    (pc = "wait" /\ cycles = 0) =>
        /\ seen_threads.t = "list"
        /\ ~(threads_file.kind = "json" /\ threads_file.val.t = "list")
              => seen_threads = EmptyList

\* C9: the id of a new item is appended only after the send attempt has
\* returned, whatever its result, and an item that had a send attempt gets
\* no second one.
C9_OneAttemptThenSeen ==
    /\ (pc = "save" /\ branch = "new") =>
          /\ status \in SendResults
          /\ seen_threads.v[Len(seen_threads.v)] = thread_id
    /\ pc = "send" => sends[thread_id] = 0

\* C10 as stated: while no write fails, outside a record step the file holds
\* the in-memory sequence, and at most one id that had a send attempt is not
\* in the file.  Stated for the states in which the recorded ids are
\* pairwise distinct, so that repeated appends of one id play no part.
C10_AtMostOneSentNotInFile ==
    (write_failures = 0 /\ Cardinality(Elems(recorded)) = Len(recorded)) =>
        /\ pc \notin {"boot", "save"} => load_seen_threads(threads_file) = seen_threads
        /\ Cardinality({ id \in AllIds : sends[id] > 0 /\ id \notin FileIds }) <= 1

\* C10 amended: while no write fails, outside a record step the file holds
\* the in-memory sequence, and at most one id that had a send attempt has
\* not been written to the file since.
C10_PersistPerAppend ==
    write_failures = 0 =>
        /\ pc \notin {"boot", "save"} => load_seen_threads(threads_file) = seen_threads
        /\ Cardinality(unflushed) <= 1

\* C10 witness: a sent id is appended and the write has not happened yet
C10_AppendNotYetWritten ==
    /\ write_failures = 0
    /\ pc = "save"
    /\ branch = "new"
    /\ unflushed = {thread_id}
    /\ thread_id \notin FileIds

\* C11: a failed write of save_seen_threads does not reach the cycle: the
\* for loop goes on with the next candidate, the id just appended stays in
\* the in-memory sequence, which is truncated to MAX_SEEN_THREADS, the
\* cycle ends only after its last candidate, and from then on no send is
\* made for an id that is in the in-memory sequence.
C11_WriteFailureKeepsMemory ==
    /\ wrote = "failed" =>
          /\ pc = "loop"
          /\ exc = "none"
          /\ Len(seen_threads.v) <= MAX_SEEN_THREADS
          /\ seen_threads.v[Len(seen_threads.v)] = recorded[Len(recorded)]
    /\ (write_failures > 0 /\ pc = "sleep") => i = Len(thread_elements) + 1
    /\ (write_failures > 0 /\ pc \in {"send", "append"} /\ branch = "new")
          => thread_id \notin SeenIds

\* C11 witness: after a failed write a later candidate is skipped as seen
\* although the file does not hold its id
C11_SkippedFromMemory ==
    /\ write_failures > 0
    /\ pc = "loop"
    /\ branch = "seen"
    /\ i > 1
    /\ IdOfElement(thread_elements[i - 1], hashseed) \in SeenIds
    /\ IdOfElement(thread_elements[i - 1], hashseed) \notin FileIds

\* the ids the loop makes up for records without a native id
IsFallbackId(id) == id \notin { el.item_id : el \in ThreadElements }

InForLoop == {"loop", "send", "append", "save"}

\* C13: within one cycle the candidates are taken one after another in the
\* order of the rendered list: the list does not change during the pass, the
\* index stays on a candidate until its send, append and save are done and
\* then moves to the next one, the send is made for the candidate at the
\* index and for no other id, and the id appended is that candidate's id,
\* put at the end of the sequence.
C13_InListOrder ==
    [][ /\ (pc \in InForLoop /\ pc' \in InForLoop) =>
              /\ thread_elements' = thread_elements
              /\ i' \in {i, i + 1}
              /\ i' = i + 1 => (pc' = "loop" /\ pc \in {"loop", "save"})
        /\ (pc = "send" /\ pc' # "send") =>
              /\ pc' = "append"
              /\ thread_id = IdOfElement(thread_elements[i], hashseed)
              /\ \A id \in AllIds \ {thread_id} : sends'[id] = sends[id]
        /\ pc # "send" => sends' = sends \/ pc' = "boot"
        /\ (pc = "append" /\ pc' = "save") =>
              seen_threads'.v = Append(seen_threads.v,
                                       IdOfElement(thread_elements[i], hashseed))
        /\ (pc \in InForLoop /\ pc # "append" /\ pc' \in InForLoop) =>
              \/ seen_threads'.v = seen_threads.v
              \/ (pc = "save" /\ seen_threads'.v = Truncated(seen_threads.v))
      ]_vars

\* C13 witness: in the first cycle of a run started without a file the
\* second candidate is about to be sent after the first one was sent and
\* appended
C13_SecondAfterFirst ==
    /\ pc = "send"
    /\ i = 2
    /\ cycles = 1
    /\ thread_id # IdOfElement(thread_elements[1], hashseed)
    /\ sends[IdOfElement(thread_elements[1], hashseed)] = 1
    /\ seen_threads.v = << IdOfElement(thread_elements[1], hashseed) >>

\* the entries of cycle_log after position k that are appends
LaterAppends(k) ==
    { j \in (k + 1)..Len(cycle_log) : cycle_log[j].kind = "appended" }

\* C14: after the last candidate of a cycle, every candidate of the cycle
\* that was extracted and whose id was then neither the excluded id nor in
\* the in-memory sequence has had its send attempt and its append in this
\* cycle, and its id is in the in-memory sequence unless MAX_SEEN_THREADS or
\* more appends of the same cycle followed its own; the cycle is not left
\* for the backoff with such a candidate pending.
C14_RelayedWithinCycle ==
    /\ (pc = "loop" /\ i > Len(thread_elements)) =>
          \A k \in 1..Len(cycle_log) :
             cycle_log[k].kind = "eligible" =>
                /\ sends[cycle_log[k].id] > 0
                /\ k < Len(cycle_log)
                /\ cycle_log[k + 1] = [kind |-> "appended", id |-> cycle_log[k].id]
                /\ \/ cycle_log[k].id \in SeenIds
                   \/ Cardinality(LaterAppends(k + 1)) >= MAX_SEEN_THREADS
    /\ pc = "backoff" => cycle_log = << >>

\* C14 witness: after the last candidate one relayed candidate is still in the
\* sequence and an earlier one was evicted by the appends that followed it
C14_RelayedAndEvicted ==
    /\ pc = "loop"
    /\ i > Len(thread_elements)
    /\ \E k, l \in 1..Len(cycle_log) :
          /\ k < l
          /\ cycle_log[k].kind = "eligible"
          /\ cycle_log[l].kind = "eligible"
          /\ sends[cycle_log[k].id] > 0
          /\ cycle_log[k].id \notin SeenIds
          /\ cycle_log[l].id \in SeenIds

\* C15: two consecutive scrolls are 8 to 16 completed cycles apart, and the
\* first scroll comes with the 16th completed cycle at the latest: at the
\* end of every cycle the last scroll is at most 16 cycles back.
C15_ScrollEvery8To16 ==
    [][ pc = "sleep" =>
          /\ last_scroll' # last_scroll => (last_scroll' - last_scroll) \in 8..16
          /\ scroll_counter' - last_scroll' <= 16
      ]_vars

C17_SeenSkipIsNoOp ==
    [][ ( /\ pc = "loop"
          /\ i <= Len(thread_elements)
          /\ branch' # "failed"
          /\ IdOfElement(thread_elements[i], hashseed) # BLOCKED_THREAD_ID
          /\ seen_threads.t = "list"
          /\ IdOfElement(thread_elements[i], hashseed) \in SeenIds )
        => /\ sends' = sends
           /\ seen_threads' = seen_threads
           /\ threads_file' = threads_file
           /\ write_failures' = write_failures
           /\ pc' = "loop"
           /\ i' = i + 1
      ]_vars

\* C17 witness: a candidate whose id is in the sequence, not as its latest
\* entry, has just been skipped
C17_SkippedSeen ==
    /\ pc = "loop"
    /\ branch = "seen"
    /\ wrote = "none"
    /\ i > 1
    /\ IdOfElement(thread_elements[i - 1], hashseed) \in SeenIds
    /\ IdOfElement(thread_elements[i - 1], hashseed) # seen_threads.v[Len(seen_threads.v)]

\* C18: a webhook send is made only for an id that is not the excluded id
\* and is not in the in-memory sequence at the moment of the send; a second
\* send for an id is made only after truncation evicted it, so it is not
\* among the last MAX_SEEN_THREADS ids appended.
C18_NoSendWhileSeen ==
    /\ sends[BLOCKED_THREAD_ID] = 0
    /\ pc = "send" =>
          /\ thread_id # BLOCKED_THREAD_ID
          /\ thread_id \notin SeenIds
          /\ sends[thread_id] >= 1 =>
                thread_id \notin Elems(LastN(recorded, MAX_SEEN_THREADS))
    /\ (pc = "append" /\ branch = "new") =>
          /\ sends[thread_id] >= 1
          /\ thread_id \notin SeenIds

\* C18 witness: an id sent before in this run is about to be sent again,
\* after it was evicted
C18_SentAgainAfterEviction ==
    /\ pc = "send"
    /\ sends[thread_id] = 1
    /\ Len(seen_threads.v) = MAX_SEEN_THREADS
    /\ thread_id \notin SeenIds

\* C19: started on a file without a repeated id, the in-memory sequence
\* never holds an id twice, the excluded id included.
C19_NoDuplicateEntries ==
    pc # "boot" => Cardinality(SeenIds) = Len(seen_threads.v)

====
